---- MODULE Spec2Model ----
(***************************************************************************)
(* Model of the confluence chatbot: the page chunker and table splitter of *)
(* module/collect_data.py and the ranking, context assembly and            *)
(* conversation memory of app.py.                                          *)
(*                                                                         *)
(* Strings are sequences of one-character strings, so that str.split,      *)
(* str.join and the slice [:-3] are computed and not assumed.              *)
(***************************************************************************)
EXTENDS Integers, Sequences, FiniteSets, TLC

VARIABLES
    \* split_string_by_markers (collect_data.py:103-128)
    input_string, min_part_size, max_part_size, splits, split_i,
    current_part, result, chunk_pc,
    \* split_table (collect_data.py:59-75)
    table_df, max_rows_per_table, header, chunks, chunk_i, result_dfs, table_pc,
    \* sort_documents, get_context (app.py:125-164)
    pages_df, max_tokens_per_context, chosen_pages_content, sum_tokens_chosen,
    context, rank_pc,
    \* run_chatbot, ask, contruct_prompt (app.py:76-79, 98-123, 166-211)
    memory, max_messages_to_keep, query, response, answer, turn, pc

chunkVars == <<input_string, min_part_size, max_part_size, splits, split_i,
               current_part, result, chunk_pc>>

tableVars == <<table_df, max_rows_per_table, header, chunks, chunk_i, result_dfs, table_pc>>

rankVars == <<pages_df, max_tokens_per_context, chosen_pages_content, sum_tokens_chosen,
              context, rank_pc>>

chatVars == <<memory, max_messages_to_keep, query, response, answer, turn, pc>>

vars == <<chunkVars, tableVars, rankVars, chatVars>>

----------------------------------------------------------------------------
\* Bounds of the model
MaxLen == 7      \* longest input text of the chunker, in characters
MaxMin == 4      \* largest min_part_size
MaxMax == 7      \* largest max_part_size
MaxRows == 9     \* most data rows of a table
MaxLimit == 4    \* largest max_rows_per_table
MaxPages == 3    \* most rows of the chunk table when ranking
MaxCtx == 8      \* largest max_tokens_per_context
MaxKeep == 6     \* largest max_messages_to_keep
MaxTurns == 3    \* chat turns of a session
MaxFragments == 2 \* fragments of one completion stream

----------------------------------------------------------------------------
\* Strings

Alphabet == {"a", "\n", "#"}

marker == <<"\n", "#", "#">>

\* the literal 3 of current_part[:-3]
StripLen == 3

Texts == UNION {[1..n -> Alphabet] : n \in 0..MaxLen}

Min(S) == CHOOSE x \in S : \A y \in S : x <= y

\* str.split(sep): non-overlapping occurrences of sep, scanned left to right
RECURSIVE split(_, _)
split(s, sep) ==
    LET hits == {i \in 1..(Len(s) - Len(sep) + 1) :
                    SubSeq(s, i, i + Len(sep) - 1) = sep}
    IN  IF hits = {} THEN <<s>>
        ELSE LET i == Min(hits)
             IN  <<SubSeq(s, 1, i - 1)>>
                   \o split(SubSeq(s, i + Len(sep), Len(s)), sep)

\* sep.join(parts)
RECURSIVE join(_, _)
join(parts, sep) ==
    IF Len(parts) = 0 THEN <<>>
    ELSE IF Len(parts) = 1 THEN parts[1]
    ELSE parts[1] \o sep \o join(Tail(parts), sep)

\* s[:-3]
StripTail(s) == IF Len(s) <= StripLen THEN <<>> ELSE SubSeq(s, 1, Len(s) - StripLen)

----------------------------------------------------------------------------
\* split_string_by_markers, one action per branch of the loop body.
\* Each entry of result carries the text of the part and the branch that
\* appended it.

ChunkInit ==
    /\ input_string \in Texts
    /\ min_part_size \in 1..MaxMin
    /\ max_part_size \in 1..MaxMax
    /\ splits = split(input_string, marker)
    /\ split_i = 1
    /\ current_part = <<>>
    /\ result = <<>>
    /\ chunk_pc = "loop"

FitsIgnoringCurrentPart == Len(splits[split_i]) + Len(marker) <= max_part_size

Fits == Len(current_part) + Len(splits[split_i]) + Len(marker) <= max_part_size

\* line 112-113
ChunkAccumulate ==
    /\ chunk_pc = "loop" /\ split_i <= Len(splits)
    /\ Fits
    /\ current_part' = current_part \o splits[split_i] \o marker
    /\ split_i' = split_i + 1
    /\ UNCHANGED <<input_string, min_part_size, max_part_size, splits, result, chunk_pc>>
    /\ UNCHANGED <<tableVars, rankVars, chatVars>>

\* line 115-118
ChunkFlush ==
    /\ chunk_pc = "loop" /\ split_i <= Len(splits)
    /\ ~Fits
    /\ Len(current_part) >= min_part_size
    /\ result' = Append(result, [text |-> StripTail(current_part), branch |-> "flush"])
    /\ current_part' = <<>>
    /\ split_i' = split_i + 1
    /\ UNCHANGED <<input_string, min_part_size, max_part_size, splits, chunk_pc>>
    /\ UNCHANGED <<tableVars, rankVars, chatVars>>

\* line 120-123
ChunkForcedAppend ==
    /\ chunk_pc = "loop" /\ split_i <= Len(splits)
    /\ ~Fits
    /\ ~(Len(current_part) >= min_part_size)
    /\ result' = Append(result, [text |-> StripTail(current_part \o splits[split_i] \o marker),
                                 branch |-> "forced"])
    /\ current_part' = <<>>
    /\ split_i' = split_i + 1
    /\ UNCHANGED <<input_string, min_part_size, max_part_size, splits, chunk_pc>>
    /\ UNCHANGED <<tableVars, rankVars, chatVars>>

\* line 125-128
ChunkReturn ==
    /\ chunk_pc = "loop" /\ split_i > Len(splits)
    /\ result' = IF current_part # <<>>
                 THEN Append(result, [text |-> StripTail(current_part), branch |-> "final"])
                 ELSE result
    /\ chunk_pc' = "done"
    /\ UNCHANGED <<input_string, min_part_size, max_part_size, splits, split_i, current_part>>
    /\ UNCHANGED <<tableVars, rankVars, chatVars>>

ChunkNext == ChunkAccumulate \/ ChunkFlush \/ ChunkForcedAppend \/ ChunkReturn

ChunkIdle ==
    /\ input_string = <<>> /\ min_part_size = 0 /\ max_part_size = 0
    /\ splits = <<>> /\ split_i = 0 /\ current_part = <<>> /\ result = <<>>
    /\ chunk_pc = "idle"

----------------------------------------------------------------------------
\* split_table.  A table is its column header and the sequence of its data
\* rows; a row is named by its position in the original table.

Headers == {"h1", "h2"}

TableIdle ==
    /\ table_df = [columns |-> "", rows |-> <<>>] /\ max_rows_per_table = 0
    /\ header = "" /\ chunks = <<>> /\ chunk_i = 0 /\ result_dfs = <<>>
    /\ table_pc = "idle"

TableInit ==
    /\ \E h \in Headers, n \in 0..MaxRows :
          table_df = [columns |-> h, rows |-> [k \in 1..n |-> k]]
    /\ max_rows_per_table \in 1..MaxLimit
    /\ header = "" /\ chunks = <<>> /\ chunk_i = 0 /\ result_dfs = <<>>
    /\ table_pc = "start"

\* math.ceil(a / b) for a >= 0, b > 0
ceil_div(a, b) == (a + b - 1) \div b

\* rows[i:j], 0-based and end-exclusive, clipped to the length
SliceTooShort(rows, i, j) ==
    SubSeq(rows, i + 1, IF j - 1 < Len(rows) THEN j - 1 ELSE Len(rows))

Slice(rows, i, j) ==
    SubSeq(rows, i + 1, IF j < Len(rows) THEN j ELSE Len(rows))

\* [df[i:i + step] for i in range(start, len(df), step)]
RECURSIVE ChunksFrom(_, _, _)
ChunksFrom(rows, i, step) ==
    IF i >= Len(rows) THEN <<>>
    ELSE <<Slice(rows, i, i + step)>> \o ChunksFrom(rows, i + step, step)

\* line 64-68
TableSplit ==
    /\ table_pc = "start"
    /\ header' = table_df.columns
    /\ chunks' = ChunksFrom(table_df.rows, 0, max_rows_per_table)
    /\ chunk_i' = 1
    /\ table_pc' = "headers"
    /\ UNCHANGED <<table_df, max_rows_per_table, result_dfs>>
    /\ UNCHANGED <<chunkVars, rankVars, chatVars>>

\* line 71-73
TableAddHeader ==
    /\ table_pc = "headers" /\ chunk_i <= Len(chunks)
    /\ result_dfs' = Append(result_dfs, [columns |-> header, rows |-> chunks[chunk_i]])
    /\ chunk_i' = chunk_i + 1
    /\ UNCHANGED <<table_df, max_rows_per_table, header, chunks, table_pc>>
    /\ UNCHANGED <<chunkVars, rankVars, chatVars>>

\* line 75
TableReturn ==
    /\ table_pc = "headers" /\ chunk_i > Len(chunks)
    /\ table_pc' = "done"
    /\ UNCHANGED <<table_df, max_rows_per_table, header, chunks, chunk_i, result_dfs>>
    /\ UNCHANGED <<chunkVars, rankVars, chatVars>>

TableNext == TableSplit \/ TableAddHeader \/ TableReturn

----------------------------------------------------------------------------
\* sort_documents and get_context.  A row of pages_df is a record; its
\* page_content is the number of the row in the table as loaded.

Embeddings == {<<1, 0>>, <<0, 1>>, <<1, 1>>}

TokenCounts == {1, 3, 6}

Queries == {"q1", "q2"}

\* create_embeddings(query, model): the embedding collaborator
create_embeddings(q) == IF q = "q1" THEN <<1, 0>> ELSE <<0, 1>>

\* np.dot
vector_similarity(x, y) == x[1] * y[1] + x[2] * y[2]

\* "+ 4  # separator"
separator == 4

context_message == "Informationen und Anleitungen aus dem Wiki: "

system_message == "Du bist ein freundlicher IT Support Agent."

Frames(n) ==
    {[k \in 1..n |-> [page_content |-> k, embeddings |-> e[k], num_tokens |-> t[k]]] :
        e \in [1..n -> Embeddings], t \in [1..n -> TokenCounts]}

RowOrders(n) == {p \in [1..n -> 1..n] : \A i, j \in 1..n : i # j => p[i] # p[j]}

Scored(df, qe) ==
    [k \in 1..Len(df) |->
        [page_content |-> df[k].page_content, embeddings |-> df[k].embeddings,
         num_tokens |-> df[k].num_tokens,
         similarity |-> vector_similarity(df[k].embeddings, qe)]]

sort_documents_ascending(q, df) ==
    LET sc == Scored(df, create_embeddings(q))
        n == Len(df)
    IN  {[i \in 1..n |-> sc[p[i]]] :
            p \in {p \in RowOrders(n) :
                     \A i, j \in 1..n : i < j => sc[p[i]].similarity <= sc[p[j]].similarity}}

\* The frames sort_values(by = 'similarity', ascending = False) can leave:
\* the default kind is quicksort, which is not stable, so rows of equal
\* similarity come out in any order.
sort_documents(q, df) ==
    LET sc == Scored(df, create_embeddings(q))
        n == Len(df)
    IN  {[i \in 1..n |-> sc[p[i]]] :
            p \in {p \in RowOrders(n) :
                     \A i, j \in 1..n : i < j => sc[p[i]].similarity >= sc[p[j]].similarity}}

\* the loop of get_context, from row i on
RECURSIVE get_context_skipping(_, _, _, _)
get_context_skipping(df, i, chosen, sum) ==
    IF i > Len(df) THEN [chosen |-> chosen, sum |-> sum]
    ELSE IF sum + df[i].num_tokens > max_tokens_per_context
         THEN get_context_skipping(df, i + 1, chosen, sum)
         ELSE get_context_skipping(df, i + 1, Append(chosen, df[i].page_content),
                                   sum + df[i].num_tokens + separator)

RECURSIVE get_context_unchecked(_, _, _, _)
get_context_unchecked(df, i, chosen, sum) ==
    IF i > Len(df) THEN [chosen |-> chosen, sum |-> sum]
    ELSE IF df[i].num_tokens > max_tokens_per_context
         THEN [chosen |-> chosen, sum |-> sum]
         ELSE get_context_unchecked(df, i + 1, Append(chosen, df[i].page_content),
                                    sum + df[i].num_tokens + separator)

RECURSIVE get_context_loop(_, _, _, _)
get_context_loop(df, i, chosen, sum) ==
    IF i > Len(df) THEN [chosen |-> chosen, sum |-> sum]
    ELSE IF sum + df[i].num_tokens > max_tokens_per_context
         THEN [chosen |-> chosen, sum |-> sum]
         ELSE get_context_loop(df, i + 1, Append(chosen, df[i].page_content),
                               sum + df[i].num_tokens + separator)

\* context_message + '\n\n'.join(chosen_pages_content)
ContextString(chosen) == [preamble |-> context_message, pages |-> chosen]

NoContext == [preamble |-> "", pages |-> <<>>]

RankIdle ==
    /\ pages_df = <<>> /\ max_tokens_per_context = 0
    /\ chosen_pages_content = <<>> /\ sum_tokens_chosen = 0
    /\ context = NoContext /\ rank_pc = "idle"

RankInit ==
    /\ pages_df \in UNION {Frames(n) : n \in 0..MaxPages}
    /\ max_tokens_per_context \in 0..MaxCtx
    /\ chosen_pages_content = <<>> /\ sum_tokens_chosen = 0
    /\ context = NoContext
    /\ rank_pc = "sort"

\* ask, line 101
SortDocuments ==
    /\ rank_pc = "sort"
    /\ \E q \in Queries : pages_df' \in sort_documents(q, pages_df)
    /\ rank_pc' = "context"
    /\ UNCHANGED <<max_tokens_per_context, chosen_pages_content, sum_tokens_chosen, context>>
    /\ UNCHANGED <<chunkVars, tableVars, chatVars>>

\* ask, line 104
GetContext ==
    /\ rank_pc = "context"
    /\ LET r == get_context_loop(pages_df, 1, <<>>, 0)
       IN  /\ chosen_pages_content' = r.chosen
           /\ sum_tokens_chosen' = r.sum
           /\ context' = ContextString(r.chosen)
    /\ rank_pc' = "done"
    /\ UNCHANGED <<pages_df, max_tokens_per_context>>
    /\ UNCHANGED <<chunkVars, tableVars, chatVars>>

RankNext == SortDocuments \/ GetContext

----------------------------------------------------------------------------
\* The session loop of run_chatbot.

Message(role, content) == [role |-> role, content |-> content]

\* the delta of a fragment: its content, "" when the key is absent
Fragments == {<<>>, <<"x">>, <<"y">>}

\* ''.join(answer)
RECURSIVE join_answer(_)
join_answer(fs) == IF fs = <<>> THEN <<>> ELSE Head(fs) \o join_answer(Tail(fs))

initialize_memory == <<Message("system", system_message)>>

\* del m[1:4]
DeleteFromZero(m) == SubSeq(m, 4, Len(m))

Delete1To4(m) == SubSeq(m, 1, 1) \o SubSeq(m, 5, Len(m))

contruct_prompt_delete_two(q, m, ctx) ==
    LET appended == Append(Append(m, Message("assistant", ctx)), Message("user", q))
    IN  IF Len(appended) > max_messages_to_keep
        THEN SubSeq(appended, 1, 1) \o SubSeq(appended, 4, Len(appended))
        ELSE appended

contruct_prompt_delete_last(q, m, ctx) ==
    LET appended == Append(Append(m, Message("assistant", ctx)), Message("user", q))
    IN  IF Len(appended) > max_messages_to_keep
        THEN SubSeq(appended, 1, Len(appended) - 3)
        ELSE appended

contruct_prompt_delete_first(q, m, ctx) ==
    LET appended == Append(Append(m, Message("assistant", ctx)), Message("user", q))
    IN  IF Len(appended) > max_messages_to_keep
        THEN DeleteFromZero(appended)
        ELSE appended

contruct_prompt(q, m, ctx) ==
    LET appended == Append(Append(m, Message("assistant", ctx)), Message("user", q))
    IN  IF Len(appended) > max_messages_to_keep
        THEN Delete1To4(appended)
        ELSE appended

\* the chunk tables of the sessions: two rows that tie for q1 and not for q2
ChatPages ==
    {<<[page_content |-> 1, embeddings |-> <<1, 0>>, num_tokens |-> t[1]],
       [page_content |-> 2, embeddings |-> <<1, 1>>, num_tokens |-> t[2]]>> :
        t \in [1..2 -> {1, 6}]}

\* the fragment sequences a completion stream can yield
Responses == UNION {[1..n -> Fragments] : n \in 0..MaxFragments}

ChatIdle ==
    /\ memory = <<>> /\ max_messages_to_keep = 0 /\ query = ""
    /\ response = <<>> /\ answer = <<>>
    /\ turn = 0 /\ pc = "idle"

\* run_chatbot, line 182-183
ChatInit ==
    /\ pages_df \in ChatPages
    /\ max_tokens_per_context \in {5, MaxCtx}
    /\ chosen_pages_content = <<>> /\ sum_tokens_chosen = 0
    /\ context = NoContext /\ rank_pc = "idle"
    /\ memory = initialize_memory
    /\ max_messages_to_keep \in 1..MaxKeep
    /\ query = "" /\ response = <<>> /\ answer = <<>> /\ turn = 0
    /\ pc = "input"

\* line 187-191
Exit ==
    /\ pc = "input"
    /\ query' = "exit"
    /\ pc' = "exit"
    /\ UNCHANGED <<memory, max_messages_to_keep, response, answer, turn>>
    /\ UNCHANGED <<chunkVars, tableVars, rankVars>>

\* line 187-197: a query is read and ask returns the response stream
Ask ==
    /\ pc = "input" /\ turn < MaxTurns
    /\ \E q \in Queries :
         \E sorted \in sort_documents(q, pages_df) :
            LET r == get_context_loop(sorted, 1, <<>>, 0)
            IN  /\ query' = q
                /\ pages_df' = sorted
                /\ chosen_pages_content' = r.chosen
                /\ sum_tokens_chosen' = r.sum
                /\ context' = ContextString(r.chosen)
                /\ memory' = contruct_prompt(q, memory, ContextString(r.chosen))
    /\ response' \in Responses
    /\ answer' = <<>>
    /\ turn' = turn + 1
    /\ pc' = "stream"
    /\ UNCHANGED <<max_messages_to_keep, max_tokens_per_context, rank_pc>>
    /\ UNCHANGED <<chunkVars, tableVars>>

\* line 115-121: the completion call raises; nothing catches it
AskFails ==
    /\ pc = "input" /\ turn < MaxTurns
    /\ \E q \in Queries :
         \E sorted \in sort_documents(q, pages_df) :
            LET r == get_context_loop(sorted, 1, <<>>, 0)
            IN  /\ query' = q
                /\ pages_df' = sorted
                /\ chosen_pages_content' = r.chosen
                /\ sum_tokens_chosen' = r.sum
                /\ context' = ContextString(r.chosen)
                /\ memory' = contruct_prompt(q, memory, ContextString(r.chosen))
    /\ response' = <<>>
    /\ answer' = <<>>
    /\ turn' = turn + 1
    /\ pc' = "crashed"
    /\ UNCHANGED <<max_messages_to_keep, max_tokens_per_context, rank_pc>>
    /\ UNCHANGED <<chunkVars, tableVars>>

\* line 201-204: the next fragment of the stream
StreamFragment ==
    /\ pc = "stream" /\ Len(answer) < Len(response)
    /\ answer' = Append(answer, response[Len(answer) + 1])
    /\ UNCHANGED <<memory, max_messages_to_keep, query, response, turn, pc>>
    /\ UNCHANGED <<chunkVars, tableVars, rankVars>>

StreamFailsKeepingPartialAnswer ==
    /\ pc = "stream"
    /\ memory' = Append(memory, Message("assistant", join_answer(answer)))
    /\ pc' = "crashed"
    /\ UNCHANGED <<max_messages_to_keep, query, response, answer, turn>>
    /\ UNCHANGED <<chunkVars, tableVars, rankVars>>

\* line 201: asking the stream for its next fragment raises; nothing catches it
StreamFails ==
    /\ pc = "stream"
    /\ pc' = "crashed"
    /\ UNCHANGED <<memory, max_messages_to_keep, query, response, answer, turn>>
    /\ UNCHANGED <<chunkVars, tableVars, rankVars>>

\* line 201, 207-211: the stream is exhausted
StreamEnds ==
    /\ pc = "stream" /\ Len(answer) = Len(response)
    /\ memory' = Append(memory, Message("assistant", join_answer(answer)))
    /\ pc' = "input"
    /\ UNCHANGED <<max_messages_to_keep, query, response, answer, turn>>
    /\ UNCHANGED <<chunkVars, tableVars, rankVars>>

ChatNext == Exit \/ Ask \/ AskFails \/ StreamFragment \/ StreamFails \/ StreamEnds

----------------------------------------------------------------------------
\* Specifications

InitChunk == ChunkInit /\ TableIdle /\ RankIdle /\ ChatIdle

SpecChunk == InitChunk /\ [][ChunkNext]_vars

InitTable == TableInit /\ ChunkIdle /\ RankIdle /\ ChatIdle

SpecTable == InitTable /\ [][TableNext]_vars

InitRank == RankInit /\ ChunkIdle /\ TableIdle /\ ChatIdle

SpecRank == InitRank /\ [][RankNext]_vars

InitChat == ChatInit /\ ChunkIdle /\ TableIdle

SpecChat == InitChat /\ [][ChatNext]_vars

----------------------------------------------------------------------------
\* Properties of split_string_by_markers

Parts == [k \in 1..Len(result) |-> result[k].text]

\* C1: when split_string_by_markers has returned, joining the parts with the
\* marker between them gives back the input text (no segment is lost).
C1_RoundTrip == chunk_pc = "done" => join(Parts, marker) = input_string

\* C2: every part that is not appended by the forced-append branch is at most
\* max_part_size long, and the forced-append branch is taken only when the
\* segment does not fit and the accumulator is shorter than min_part_size.
C2_SizeBound ==
    /\ [](\A k \in 1..Len(result) :
             result[k].branch # "forced" => Len(result[k].text) <= max_part_size)
    /\ [][Len(result') > Len(result) /\ result'[Len(result')].branch = "forced"
            => ~Fits /\ Len(current_part) < min_part_size]_vars

C2_Witness ==
    /\ chunk_pc = "done"
    /\ \E k \in 1..Len(result) :
          result[k].branch = "forced" /\ Len(result[k].text) > max_part_size
    /\ \E k \in 1..Len(result) : result[k].branch # "forced"

----------------------------------------------------------------------------
\* Properties of split_table

RECURSIVE Flatten(_)
Flatten(ss) == IF ss = <<>> THEN <<>> ELSE Head(ss) \o Flatten(Tail(ss))

\* C7: split_table returns ceil(R/L) groups, each with the original header
\* and at most L rows, that are consecutive row ranges in the original order
\* and together hold the R rows.
C7_TableGroups ==
    table_pc = "done" =>
        LET R == Len(table_df.rows)
            L == max_rows_per_table
        IN  /\ Len(result_dfs) = ceil_div(R, L)
            /\ \A g \in 1..Len(result_dfs) :
                  /\ result_dfs[g].columns = table_df.columns
                  /\ Len(result_dfs[g].rows) <= L
            /\ Flatten([g \in 1..Len(result_dfs) |-> result_dfs[g].rows]) = table_df.rows

C7_Witness ==
    /\ table_pc = "done"
    /\ Len(result_dfs) >= 3
    /\ Len(result_dfs[Len(result_dfs)].rows) < max_rows_per_table

----------------------------------------------------------------------------
\* Properties of sort_documents and get_context

TokensOf(id) ==
    LET k == CHOOSE k \in 1..Len(pages_df) : pages_df[k].page_content = id
    IN  pages_df[k].num_tokens

RECURSIVE SelectedCost(_)
SelectedCost(chosen) ==
    IF chosen = <<>> THEN 0
    ELSE TokensOf(Head(chosen)) + separator + SelectedCost(Tail(chosen))

RECURSIVE PrefixCost(_)
PrefixCost(k) ==
    IF k = 0 THEN 0 ELSE PrefixCost(k - 1) + pages_df[k].num_tokens + separator

\* C3 (as claimed): the sum of num_tokens + 4 over the chosen pages never
\* exceeds max_tokens_per_context.
C3_WithinBudget ==
    rank_pc = "done" => SelectedCost(chosen_pages_content) <= max_tokens_per_context

\* C3 (amended): the sum of num_tokens + 4 over the chosen pages, without the
\* 4 of the page chosen last, never exceeds max_tokens_per_context.
C3_WithinBudgetButLastSeparator ==
    rank_pc = "done" /\ chosen_pages_content # <<>> =>
        /\ SelectedCost(chosen_pages_content) - separator <= max_tokens_per_context
        /\ sum_tokens_chosen = SelectedCost(chosen_pages_content)

C3_Witness ==
    /\ rank_pc = "done"
    /\ Len(chosen_pages_content) >= 2
    /\ SelectedCost(chosen_pages_content) > max_tokens_per_context

\* C4: the chosen pages are the first k rows of the ranked table, k being the
\* first row that does not fit; nothing after it is chosen; when the first
\* row alone exceeds the budget nothing is chosen and the context is the
\* preamble.
C4_PrefixOfRanking ==
    rank_pc = "done" =>
        LET k == Len(chosen_pages_content)
            n == Len(pages_df)
        IN  /\ k <= n
            /\ \A j \in 1..k :
                  /\ chosen_pages_content[j] = pages_df[j].page_content
                  /\ PrefixCost(j - 1) + pages_df[j].num_tokens <= max_tokens_per_context
            /\ k < n =>
                  PrefixCost(k) + pages_df[k + 1].num_tokens > max_tokens_per_context
            /\ context.preamble = context_message
            /\ context.pages = chosen_pages_content
            /\ (n >= 1 /\ pages_df[1].num_tokens > max_tokens_per_context) =>
                  context.pages = <<>>

C4_Witness ==
    /\ rank_pc = "done"
    /\ LET k == Len(chosen_pages_content)
       IN  /\ k >= 1
           /\ \E j \in (k + 2)..Len(pages_df) :
                 PrefixCost(k) + pages_df[j].num_tokens <= max_tokens_per_context

Sorted(df) ==
    \A i, j \in 1..Len(df) : i < j => df[i].similarity >= df[j].similarity

Position(df, id) == CHOOSE k \in 1..Len(df) : df[k].page_content = id

SameRows(old, new) ==
    /\ Len(new) = Len(old)
    /\ \A k \in 1..Len(old) :
          \E m \in 1..Len(new) :
             /\ new[m].page_content = old[k].page_content
             /\ new[m].num_tokens = old[k].num_tokens
             /\ new[m].embeddings = old[k].embeddings
    /\ \A i, j \in 1..Len(new) : i # j => new[i].page_content # new[j].page_content

TiesKeepOrder(old, new) ==
    \A i, j \in 1..Len(new) :
        i < j /\ new[i].similarity = new[j].similarity =>
            Position(old, new[i].page_content) < Position(old, new[j].page_content)

\* C8 (as claimed): sort_documents leaves the rows sorted by non-increasing
\* similarity, rows of equal similarity in the order they had before.
C8_SortedAndStable ==
    [][rank_pc = "sort" /\ rank_pc' = "context" =>
          Sorted(pages_df') /\ TiesKeepOrder(pages_df, pages_df')]_vars

\* C8 (amended): sort_documents leaves the same rows sorted by non-increasing
\* similarity; the order among rows of equal similarity is not fixed.
C8_Sorted ==
    [][rank_pc = "sort" /\ rank_pc' = "context" =>
          Sorted(pages_df') /\ SameRows(pages_df, pages_df')]_vars

C8_Witness ==
    /\ rank_pc = "context"
    /\ \E i, j \in 1..Len(pages_df) :
          /\ i < j
          /\ pages_df[i].similarity = pages_df[j].similarity
          /\ pages_df[i].page_content > pages_df[j].page_content
    /\ \E i, j \in 1..Len(pages_df) : pages_df[i].similarity > pages_df[j].similarity

----------------------------------------------------------------------------
\* Properties of the conversation memory

PromptBuilt == pc = "input" /\ pc' \in {"stream", "crashed"}

\* C5: right after a call of contruct_prompt that deleted messages, memory
\* holds at most max_messages_to_keep messages.
C5_LengthAfterEviction ==
    [][PromptBuilt /\ Len(memory) + 2 > max_messages_to_keep =>
          Len(memory') <= max_messages_to_keep]_vars

C5_Witness ==
    /\ pc = "stream" /\ turn = 3
    /\ max_messages_to_keep = 6
    /\ Len(memory) = 6

\* C6: memory always has a first message, and it is the system message it was
\* initialized with.
C6_SystemMessageFirst ==
    /\ Len(memory) >= 1
    /\ memory[1] = Message("system", system_message)

C6_Witness ==
    /\ pc = "input" /\ turn = 2
    /\ max_messages_to_keep = 3
    /\ Len(memory) = 4

\* C9: while the stream is being consumed memory changes only when the
\* stream is exhausted, by one assistant message that holds all fragments of
\* the response in order, and that ends the turn; while the stream is being
\* consumed and after a failure the last message of memory is not an answer.
C9_AnswerAfterStream ==
    /\ [][pc = "stream" /\ memory' # memory =>
             /\ answer = response
             /\ memory' = Append(memory, Message("assistant", join_answer(response)))
             /\ pc' = "input"]_vars
    /\ [][pc = "stream" /\ pc' = "crashed" => memory' = memory]_vars
    /\ [](pc \in {"stream", "crashed"} => memory[Len(memory)].role # "assistant")

C9_Witness ==
    /\ pc = "crashed"
    /\ Len(response) = 2 /\ Len(answer) = 1
    /\ memory[Len(memory)] = Message("user", query)

\* C10: with max_messages_to_keep >= 3 the messages handed to the completion
\* end with the context of the turn (assistant) and the query of the turn
\* (user), and a deletion takes the context, query and answer that follow the
\* system message.
C10_PromptEndsWithTurn ==
    /\ [](pc = "stream" /\ max_messages_to_keep >= 3 =>
             /\ Len(memory) >= 3
             /\ memory[Len(memory) - 1] = Message("assistant", context)
             /\ memory[Len(memory)] = Message("user", query))
    /\ [][PromptBuilt /\ max_messages_to_keep >= 3
             /\ Len(memory) + 2 > max_messages_to_keep =>
                /\ Len(memory) >= 4
                /\ memory[2].role = "assistant" /\ memory[3].role = "user"
                /\ memory[4].role = "assistant"
                /\ memory' = <<memory[1]>> \o SubSeq(memory, 5, Len(memory))
                               \o <<Message("assistant", context'), Message("user", query')>>]_vars

C10_Witness ==
    /\ pc = "stream" /\ turn = 2
    /\ max_messages_to_keep = 3
    /\ Len(memory) = 3

====
